---------------------------- MODULE Spec2Model ----------------------------
(***************************************************************************)
(* E-commerce API: the cart, the inventory and the checkout workflow.      *)
(*                                                                         *)
(* The durable store is the PostgreSQL database of app/config.py (READ     *)
(* COMMITTED): every SQL statement reads the committed tables, and every   *)
(* db.commit() applies the session's pending writes in one step.  Every    *)
(* HTTP request runs in a session of its own (database.get_db); requests   *)
(* interleave between statements.  A session keeps the rows it loaded      *)
(* (identity map) and expires them at each commit, so an attribute read    *)
(* after a commit is a fresh SELECT of that row.                           *)
(*                                                                         *)
(* price is a Float column; prices are modelled as integer amounts, which  *)
(* double arithmetic adds and multiplies exactly.                          *)
(***************************************************************************)
EXTENDS Integers, Sequences, FiniteSets, TLC

\* ------------------------------------------------------------- bounds
MaxStock == 2
MaxQty == 2

Customers == {"u1", "u2"}
Admins == {"a1"}
Users == Customers \cup Admins
Products == {"p1", "p2"}
Requests == {"r1", "r2", "r3"}
CartUsers == Customers
Quantities == 0..MaxQty
NewPrices == {3}
NewStocks == {0, -1}

\* models.UserRole
ADMIN == "admin"
CUSTOMER == "customer"
role(u) == IF u \in Admins THEN ADMIN ELSE CUSTOMER

\* models.OrderStatus
PENDING == "pending"
OrderStatus == {"pending", "paid", "shipped", "delivered"}

VARIABLES products, cart, cart_seq, orders, order_items, req, sequential,
          workers

vars == <<products, cart, cart_seq, orders, order_items, req, sequential,
          workers>>
db == <<products, cart, cart_seq, orders, order_items>>
\* what no request changes
fixed == <<sequential, workers>>

\* ------------------------------------------------------- the tables
\* models.Product: a row of table products (exists = FALSE: no such row)
NoProduct == [exists |-> FALSE, price |-> 0, stock |-> 0]
Product(price, stock) == [exists |-> TRUE, price |-> price, stock |-> stock]

\* models.Cart: a row of table cart
Cart(id, u, p, q) == [id |-> id, user_id |-> u, product_id |-> p, quantity |-> q]

\* models.Order, models.OrderItem
Order(u, total) == [user_id |-> u, total_price |-> total, status |-> PENDING]
OrderItem(o, p, q, price) ==
    [order_id |-> o, product_id |-> p, quantity |-> q, price |-> price]

\* crud.get_product: the row of products with that id, or None
get_product(p) == products[p]

\* crud.get_cart_item: the rows of cart for (user, product); .first() takes one
get_cart_item(u, p) == {c \in cart : c.user_id = u /\ c.product_id = p}

\* the row of cart with primary key id (a refresh of an expired Cart object)
cart_row(id) == {c \in cart : c.id = id}

RECURSIVE by_id(_)
by_id(S) ==
    IF S = {} THEN <<>>
    ELSE LET c == CHOOSE x \in S : \A y \in S : x.id <= y.id
         IN <<c>> \o by_id(S \ {c})

\* crud.get_cart_items: the user's cart rows, in primary-key order
get_cart_items(u) == by_id({c \in cart : c.user_id = u})

\* ------------------------------------------------------ the sessions
NotLoaded == [loaded |-> FALSE, price |-> 0, stock |-> 0]
Loaded(pr) == [loaded |-> TRUE, price |-> pr.price, stock |-> pr.stock]
NoCache == [p \in Products |-> NotLoaded]
NoRow == [id |-> 0, quantity |-> 0]
NoPre == [stock |-> [p \in Products |-> 0], price |-> [p \in Products |-> 0],
          lines |-> [p \in Products |-> 0]]

Idle ==
    [op |-> "none", pc |-> "idle", user |-> "-", pid |-> "-", qty |-> 0,
     fields |-> {}, nprice |-> 0, nstock |-> 0, items |-> <<>>, idx |-> 0,
     total |-> 0, order |-> 0, cache |-> NoCache, row |-> NoRow,
     pre |-> NoPre, seen |-> <<>>, available |-> 0, status |-> "-",
     loaded |-> "-", listed |-> {}, result |-> "-"]

\* the response of a request: the session is closed, its objects are gone
\* (pid and available are what the detail of the response names; status and
\* listed are the order status and the order ids of its body)
Respond(s, result) ==
    [Idle EXCEPT !.op = s.op, !.pc = "done", !.user = s.user, !.pid = s.pid,
                 !.qty = s.qty, !.order = s.order, !.pre = s.pre,
                 !.available = s.available, !.status = s.status,
                 !.listed = s.listed, !.result = result]

Running(r) == req[r].pc \notin {"idle", "done"}

\* a worker that has received no request yet; the workers that serve are
\* taken in order, and a sequential client sends a request only after the
\* last response
Free(r) ==
    /\ req[r].pc = "idle"
    /\ r \in workers
    /\ r = "r2" => req["r1"].pc # "idle"
    /\ r = "r3" => req["r2"].pc # "idle"
    /\ sequential => \A o \in Requests : ~Running(o)

\* The session's view of product p: a row the session holds unexpired is
\* not overwritten by a later query (identity map)
SessionProduct(s, p) ==
    IF s.cache[p].loaded THEN s.cache[p] ELSE Loaded(products[p])

\* The store when the requests arrive: every product in stock at its seeded
\* price, and in each customer's cart at most one line per product (u1 names
\* the customer whose cart has the more lines)
Price0 == [p \in Products |-> IF p = "p1" THEN 1 ELSE 2]
Id0 == [l \in Customers \X Products |->
          (IF l[1] = "u1" THEN 0 ELSE 2) + (IF l[2] = "p1" THEN 1 ELSE 2)]

Store0 ==
    /\ \E stock \in 1..MaxStock :
          products = [p \in Products |-> Product(Price0[p], stock)]
    /\ \E lines \in SUBSET (Customers \X Products) :
          /\ Cardinality({l \in lines : l[1] = "u1"})
                >= Cardinality({l \in lines : l[1] = "u2"})
          /\ cart = {Cart(Id0[l], l[1], l[2], 1) : l \in lines}
          /\ cart_seq = Cardinality(Customers \X Products)
    /\ orders = <<>>
    /\ order_items = <<>>
    /\ req = [r \in Requests |-> Idle]

\* A request is received by a free worker; its first statement runs at once
Begin(r, op, u, p, q) ==
    [Idle EXCEPT !.op = op, !.user = u, !.pid = p, !.qty = q]

Set(r, s) == req' = [req EXCEPT ![r] = s]

\* ------------------------------------------------------------- cart
\* a slip of the stock check: one unit more than the stock is let through
InsufficientStock_lenient(stock, quantity) == stock + 1 < quantity

\* routers/cart.py add_to_cart: product lookup and stock check
InsufficientStock(stock, quantity) == stock < quantity

\* a slip of the route: the stock check is left to the checkout
add_to_cart_route_unchecked(r, u, p, q) ==
    /\ Free(r)
    /\ LET s == Begin(r, "add_to_cart", u, p, q)
           product == get_product(p)
       IN IF ~product.exists THEN Set(r, Respond(s, "404 Product not found"))
          ELSE Set(r, [s EXCEPT !.pc = "add_get_item"])
    /\ UNCHANGED <<db, fixed>>

add_to_cart_route(r, u, p, q) ==
    /\ Free(r)
    /\ LET s == Begin(r, "add_to_cart", u, p, q)
           product == get_product(p)
       IN IF ~product.exists THEN Set(r, Respond(s, "404 Product not found"))
          ELSE IF InsufficientStock(product.stock, q)
          THEN Set(r, Respond(s, "400 Insufficient stock"))
          ELSE Set(r, [s EXCEPT !.pc = "add_get_item"])
    /\ UNCHANGED <<db, fixed>>

\* crud.add_to_cart: existing_item = get_cart_item(...)
add_to_cart_get_item(r) ==
    /\ req[r].pc = "add_get_item"
    /\ LET s == req[r]
           found == get_cart_item(s.user, s.pid)
       IN IF found = {} THEN Set(r, [s EXCEPT !.pc = "add_commit", !.row = NoRow])
          ELSE \E c \in found :
                 Set(r, [s EXCEPT !.pc = "add_commit",
                                  !.row = [id |-> c.id, quantity |-> c.quantity]])
    /\ UNCHANGED <<db, fixed>>

\* a slip of the merge: the quantity is replaced, not summed
MergedQuantity_replacing(existing, quantity) == quantity

\* existing_item.quantity += cart_item.quantity
MergedQuantity(existing, quantity) == existing + quantity

\* crud.add_to_cart: the UPDATE of the existing row, or the INSERT, committed
add_to_cart_commit(r) ==
    /\ req[r].pc = "add_commit"
    /\ LET s == req[r]
       IN IF s.row.id # 0
          THEN IF cart_row(s.row.id) = {}
               THEN \* UPDATE matched no row: StaleDataError
                    /\ Set(r, Respond(s, "500 Internal Server Error"))
                    /\ UNCHANGED <<db, fixed>>
               ELSE \* an UPDATE is sent when the attribute has changed
                    /\ cart' = {IF c.id = s.row.id
                                     /\ MergedQuantity(s.row.quantity, s.qty)
                                           # s.row.quantity
                                  THEN [c EXCEPT !.quantity =
                                          MergedQuantity(s.row.quantity, s.qty)]
                                  ELSE c : c \in cart}
                    /\ Set(r, Respond(s, "201 Created"))
                    /\ UNCHANGED <<products, cart_seq, orders, order_items, fixed>>
          ELSE IF ~products[s.pid].exists
               THEN \* INSERT violates the foreign key cart.product_id
                    /\ Set(r, Respond(s, "500 Internal Server Error"))
                    /\ UNCHANGED <<db, fixed>>
               ELSE /\ cart_seq' = cart_seq + 1
                    /\ cart' = cart \cup {Cart(cart_seq + 1, s.user, s.pid, s.qty)}
                    /\ Set(r, Respond(s, "201 Created"))
                    /\ UNCHANGED <<products, orders, order_items, fixed>>

\* routers/cart.py update_cart_item: product lookup and stock check
update_cart_item_route(r, u, p, q) ==
    /\ Free(r)
    /\ LET s == Begin(r, "update_cart_item", u, p, q)
           product == get_product(p)
       IN IF ~product.exists THEN Set(r, Respond(s, "404 Product not found"))
          ELSE IF InsufficientStock(product.stock, q)
          THEN Set(r, Respond(s, "400 Insufficient stock"))
          ELSE Set(r, [s EXCEPT !.pc = "update_get_item"])
    /\ UNCHANGED <<db, fixed>>

\* crud.update_cart_item: cart_item = get_cart_item(...)
update_cart_item_get_item(r) ==
    /\ req[r].pc = "update_get_item"
    /\ LET s == req[r]
           found == get_cart_item(s.user, s.pid)
       IN IF found = {} THEN Set(r, Respond(s, "404 Cart item not found"))
          ELSE \E c \in found :
                 Set(r, [s EXCEPT !.pc = "update_commit",
                                  !.row = [id |-> c.id, quantity |-> c.quantity]])
    /\ UNCHANGED <<db, fixed>>

\* a slip of the update: the quantity is added to the row's, not set
update_cart_item_commit_adding(r) ==
    /\ req[r].pc = "update_commit"
    /\ LET s == req[r]
       IN IF cart_row(s.row.id) = {}
          THEN /\ Set(r, Respond(s, "500 Internal Server Error"))
               /\ UNCHANGED cart
          ELSE /\ cart' = {IF c.id = s.row.id
                             THEN [c EXCEPT !.quantity = s.row.quantity + s.qty]
                             ELSE c : c \in cart}
               /\ Set(r, Respond(s, "200 OK"))
    /\ UNCHANGED <<products, cart_seq, orders, order_items, fixed>>

\* crud.update_cart_item: cart_item.quantity = quantity; db.commit()
update_cart_item_commit(r) ==
    /\ req[r].pc = "update_commit"
    /\ LET s == req[r]
       IN IF s.row.quantity = s.qty
          THEN \* the attribute did not change: no UPDATE is sent
               /\ Set(r, IF cart_row(s.row.id) = {}
                         THEN Respond(s, "500 Internal Server Error")
                         ELSE Respond(s, "200 OK"))
               /\ UNCHANGED <<db, fixed>>
          ELSE IF cart_row(s.row.id) = {}
               THEN /\ Set(r, Respond(s, "500 Internal Server Error"))
                    /\ UNCHANGED <<db, fixed>>
               ELSE /\ cart' = {IF c.id = s.row.id
                                  THEN [c EXCEPT !.quantity = s.qty]
                                  ELSE c : c \in cart}
                    /\ Set(r, Respond(s, "200 OK"))
                    /\ UNCHANGED <<products, cart_seq, orders, order_items, fixed>>

\* a slip of the removal: no row to remove is a success like any other
remove_from_cart_get_item_silent(r, u, p) ==
    /\ Free(r)
    /\ LET s == Begin(r, "remove_from_cart", u, p, 0)
           found == get_cart_item(u, p)
       IN IF found = {} THEN Set(r, Respond(s, "204 No Content"))
          ELSE \E c \in found :
                 Set(r, [s EXCEPT !.pc = "remove_commit",
                                  !.row = [id |-> c.id, quantity |-> c.quantity]])
    /\ UNCHANGED <<db, fixed>>

\* routers/cart.py remove_from_cart, crud.remove_from_cart: the lookup
remove_from_cart_get_item(r, u, p) ==
    /\ Free(r)
    /\ LET s == Begin(r, "remove_from_cart", u, p, 0)
           found == get_cart_item(u, p)
       IN IF found = {} THEN Set(r, Respond(s, "404 Cart item not found"))
          ELSE \E c \in found :
                 Set(r, [s EXCEPT !.pc = "remove_commit",
                                  !.row = [id |-> c.id, quantity |-> c.quantity]])
    /\ UNCHANGED <<db, fixed>>

\* crud.remove_from_cart: db.delete(cart_item); db.commit()
remove_from_cart_commit(r) ==
    /\ req[r].pc = "remove_commit"
    /\ cart' = {c \in cart : c.id # req[r].row.id}
    /\ Set(r, Respond(req[r], "204 No Content"))
    /\ UNCHANGED <<products, cart_seq, orders, order_items, fixed>>

\* routers/cart.py clear_cart, crud.clear_cart: cart_items = get_cart_items(...)
clear_cart_get_items(r, u) ==
    /\ Free(r)
    /\ Set(r, [Begin(r, "clear_cart", u, "-", 0) EXCEPT
                 !.pc = "clear_commit", !.items = get_cart_items(u)])
    /\ UNCHANGED <<db, fixed>>

\* the primary keys of the Cart objects a session holds
Ids(items) == {items[i].id : i \in DOMAIN items}

\* a slip of the clearing: a cart with no row is reported as not found
clear_cart_commit_strict(r) ==
    /\ req[r].pc = "clear_commit"
    /\ cart' = {c \in cart : c.id \notin Ids(req[r].items)}
    /\ Set(r, Respond(req[r], IF req[r].items = <<>>
                              THEN "404 Cart item not found"
                              ELSE "204 No Content"))
    /\ UNCHANGED <<products, cart_seq, orders, order_items, fixed>>

\* crud.clear_cart: db.delete(item) for each; db.commit()
clear_cart_commit(r) ==
    /\ req[r].pc = "clear_commit"
    /\ cart' = {c \in cart : c.id \notin Ids(req[r].items)}
    /\ Set(r, Respond(req[r], "204 No Content"))
    /\ UNCHANGED <<products, cart_seq, orders, order_items, fixed>>

\* ---------------------------------------------------------- checkout
\* the quantity user u holds of product p, over all of u's cart rows
CartQuantity(u, p) ==
    LET rows == by_id(get_cart_item(u, p))
        sum[i \in 0..Len(rows)] ==
            IF i = 0 THEN 0 ELSE sum[i - 1] + rows[i].quantity
    IN sum[Len(rows)]

\* what the request found when it began (kept for the claims, not by the code)
Pre(u) == [stock |-> [p \in Products |-> products[p].stock],
           price |-> [p \in Products |-> products[p].price],
           lines |-> [p \in Products |-> CartQuantity(u, p)]]

Item(c) == [id |-> c.id, product_id |-> c.product_id, quantity |-> c.quantity]

ServerError == "500 Internal Server Error"

\* a slip of the role check: an admin checks out like a customer
checkout_load_open(r, u) ==
    /\ Free(r)
    /\ LET s == Begin(r, "checkout", u, "-", 0)
           cart_items == get_cart_items(u)
       IN IF cart_items = <<>> THEN Set(r, Respond(s, "400 Cart is empty"))
          ELSE Set(r, [s EXCEPT !.pc = "validate", !.idx = 1, !.pre = Pre(u),
                                !.items = [i \in DOMAIN cart_items |->
                                             Item(cart_items[i])]])
    /\ UNCHANGED <<db, fixed>>

\* a slip of the cart check: an empty cart is ordered, for a total of 0
checkout_load_empty(r, u) ==
    /\ Free(r)
    /\ LET s == Begin(r, "checkout", u, "-", 0)
           cart_items == get_cart_items(u)
       IN IF role(u) = ADMIN
          THEN /\ Set(r, Respond(s, "403 Admins cannot checkout"))
               /\ UNCHANGED orders
          ELSE IF cart_items = <<>>
          THEN /\ orders' = Append(orders, Order(u, 0))
               /\ Set(r, Respond([s EXCEPT !.order = Len(orders) + 1],
                                 "201 Created"))
          ELSE /\ Set(r, [s EXCEPT !.pc = "validate", !.idx = 1, !.pre = Pre(u),
                                   !.items = [i \in DOMAIN cart_items |->
                                                Item(cart_items[i])]])
               /\ UNCHANGED orders
    /\ UNCHANGED <<products, cart, cart_seq, order_items, fixed>>

\* routers/orders.py checkout: the role check and cart_items = get_cart_items(...)
checkout_load(r, u) ==
    /\ Free(r)
    /\ LET s == Begin(r, "checkout", u, "-", 0)
           cart_items == get_cart_items(u)
       IN IF role(u) = ADMIN THEN Set(r, Respond(s, "403 Admins cannot checkout"))
          ELSE IF cart_items = <<>> THEN Set(r, Respond(s, "400 Cart is empty"))
          ELSE Set(r, [s EXCEPT !.pc = "validate", !.idx = 1, !.pre = Pre(u),
                                !.items = [i \in DOMAIN cart_items |->
                                             Item(cart_items[i])]])
    /\ UNCHANGED <<db, fixed>>

\* the price and the quantity a line was verified with (kept for the claims)
Seen(price, quantity) == [price |-> price, quantity |-> quantity]

\* a slip of the total: the price is counted once per line
LineTotal_unit(price, quantity) == price

\* total_price += product.price * cart_item.quantity
LineTotal(price, quantity) == price * quantity

\* a slip of the first loop: the stock is taken as each line is verified
checkout_validate_taking(r) ==
    /\ req[r].pc = "validate"
    /\ LET s == req[r]
           cart_item == s.items[s.idx]
           p == cart_item.product_id
           product == SessionProduct(s, p)
       IN IF ~get_product(p).exists
          THEN /\ Set(r, Respond([s EXCEPT !.pid = p], "400 Product not found"))
               /\ UNCHANGED products
          ELSE IF InsufficientStock(product.stock, cart_item.quantity)
          THEN /\ Set(r, Respond([s EXCEPT !.pid = p,
                                           !.available = product.stock],
                                 "400 Insufficient stock"))
               /\ UNCHANGED products
          ELSE /\ products' = [products EXCEPT
                                 ![p].stock = @ - cart_item.quantity]
               /\ Set(r, [s EXCEPT
                 !.total = s.total + LineTotal(product.price, cart_item.quantity),
                 !.seen = Append(s.seen, Seen(product.price, cart_item.quantity)),
                 !.idx = s.idx + 1,
                 !.pc = IF s.idx = Len(s.items) THEN "create_order" ELSE "validate"])
    /\ UNCHANGED <<cart, cart_seq, orders, order_items, fixed>>

\* routers/orders.py checkout, first loop: one cart item looked up and verified
checkout_validate(r) ==
    /\ req[r].pc = "validate"
    /\ LET s == req[r]
           cart_item == s.items[s.idx]
           p == cart_item.product_id
           product == SessionProduct(s, p)
       IN IF ~get_product(p).exists
          THEN \* detail: Product {cart_item.product_id} not found
               Set(r, Respond([s EXCEPT !.pid = p], "400 Product not found"))
          ELSE IF InsufficientStock(product.stock, cart_item.quantity)
          THEN \* detail: Insufficient stock for {product.name}. Available: ...
               Set(r, Respond([s EXCEPT !.pid = p, !.available = product.stock],
                              "400 Insufficient stock"))
          ELSE Set(r, [s EXCEPT
                 !.cache[p] = product,
                 !.seen = Append(s.seen, Seen(product.price, cart_item.quantity)),
                 !.total = s.total + LineTotal(product.price, cart_item.quantity),
                 !.idx = s.idx + 1,
                 !.pc = IF s.idx = Len(s.items) THEN "create_order" ELSE "validate"])
    /\ UNCHANGED <<db, fixed>>

\* crud.create_order: the INSERT, committed; the commit expires the session
checkout_create_order(r) ==
    /\ req[r].pc = "create_order"
    /\ orders' = Append(orders, Order(req[r].user, req[r].total))
    /\ Set(r, [req[r] EXCEPT !.order = Len(orders) + 1, !.cache = NoCache,
                             !.idx = 1, !.pc = "line_cart"])
    /\ UNCHANGED <<products, cart, cart_seq, order_items, fixed>>

\* second loop, cart_item.product_id: the expired Cart row is loaded again
checkout_line_cart(r) ==
    /\ req[r].pc = "line_cart"
    /\ LET s == req[r]
           rows == cart_row(s.items[s.idx].id)
       IN IF rows = {}
          THEN \* ObjectDeletedError
               Set(r, Respond(s, ServerError))
          ELSE \E c \in rows :
                 Set(r, [s EXCEPT !.items[s.idx] = Item(c), !.pc = "line_product"])
    /\ UNCHANGED <<db, fixed>>

\* second loop: product = crud.get_product(db, cart_item.product_id)
checkout_line_product(r) ==
    /\ req[r].pc = "line_product"
    /\ LET s == req[r]
           p == s.items[s.idx].product_id
       IN IF ~get_product(p).exists
          THEN \* product is None: product.price raises AttributeError
               Set(r, Respond(s, ServerError))
          ELSE Set(r, [s EXCEPT !.cache[p] = SessionProduct(s, p),
                                !.pc = "line_item"])
    /\ UNCHANGED <<db, fixed>>

\* crud.create_order_item: the INSERT, committed; the commit expires the session
checkout_line_item(r) ==
    /\ req[r].pc = "line_item"
    /\ LET s == req[r]
           cart_item == s.items[s.idx]
           p == cart_item.product_id
       IN IF ~products[p].exists
          THEN \* INSERT violates the foreign key order_items.product_id
               /\ Set(r, Respond(s, ServerError))
               /\ UNCHANGED order_items
          ELSE /\ order_items' = Append(order_items,
                     OrderItem(s.order, p, cart_item.quantity, s.cache[p].price))
               /\ Set(r, [s EXCEPT !.cache = NoCache, !.pc = "line_stock"])
    /\ UNCHANGED <<products, cart, cart_seq, orders, fixed>>

\* product.stock -= ...: the expired Product row is loaded again
checkout_line_stock(r) ==
    /\ req[r].pc = "line_stock"
    /\ LET s == req[r]
           p == s.items[s.idx].product_id
       IN IF ~products[p].exists
          THEN \* ObjectDeletedError
               Set(r, Respond(s, ServerError))
          ELSE Set(r, [s EXCEPT !.cache[p] = Loaded(products[p]),
                                !.pc = "line_quantity"])
    /\ UNCHANGED <<db, fixed>>

\* ... -= cart_item.quantity: the expired Cart row is loaded again
checkout_line_quantity(r) ==
    /\ req[r].pc = "line_quantity"
    /\ LET s == req[r]
           rows == cart_row(s.items[s.idx].id)
       IN IF rows = {}
          THEN \* ObjectDeletedError
               Set(r, Respond(s, ServerError))
          ELSE \E c \in rows :
                 Set(r, [s EXCEPT !.items[s.idx] = Item(c), !.pc = "line_commit"])
    /\ UNCHANGED <<db, fixed>>

\* a slip of the decrement: one unit per line, whatever its quantity
NewStock_one(stock, quantity) == stock - 1

\* product.stock -= cart_item.quantity
NewStock(stock, quantity) == stock - quantity

\* db.commit() of the second loop: UPDATE products SET stock = ... , committed
checkout_line_commit(r) ==
    /\ req[r].pc = "line_commit"
    /\ LET s == req[r]
           cart_item == s.items[s.idx]
           p == cart_item.product_id
           stock == NewStock(s.cache[p].stock, cart_item.quantity)
           next == [s EXCEPT !.cache = NoCache, !.idx = s.idx + 1,
                       !.pc = IF s.idx = Len(s.items) THEN "clear_cart"
                              ELSE "line_cart"]
       IN IF stock = s.cache[p].stock
          THEN \* the attribute did not change: no UPDATE is sent
               /\ Set(r, next)
               /\ UNCHANGED products
          ELSE IF ~products[p].exists
          THEN \* UPDATE matched no row: StaleDataError
               /\ Set(r, Respond(s, ServerError))
               /\ UNCHANGED products
          ELSE /\ products' = [products EXCEPT ![p].stock = stock]
               /\ Set(r, next)
    /\ UNCHANGED <<cart, cart_seq, orders, order_items, fixed>>

\* crud.clear_cart in checkout: cart_items = get_cart_items(db, user_id)
checkout_clear_cart(r) ==
    /\ req[r].pc = "clear_cart"
    /\ Set(r, [req[r] EXCEPT !.items = [i \in DOMAIN get_cart_items(req[r].user)
                                          |-> Item(get_cart_items(req[r].user)[i])],
                             !.pc = "clear_cart_commit"])
    /\ UNCHANGED <<db, fixed>>

\* a slip of the clearing: the order is returned with the cart left as it was
checkout_clear_cart_commit_keeping(r) ==
    /\ req[r].pc = "clear_cart_commit"
    /\ Set(r, Respond(req[r], "201 Created"))
    /\ UNCHANGED <<db, fixed>>

\* crud.clear_cart in checkout: the DELETEs, committed; the order is returned
checkout_clear_cart_commit(r) ==
    /\ req[r].pc = "clear_cart_commit"
    /\ cart' = {c \in cart : c.id \notin Ids(req[r].items)}
    /\ Set(r, Respond(req[r], "201 Created"))
    /\ UNCHANGED <<products, cart_seq, orders, order_items, fixed>>

\* ---------------------------------------------------------- products
\* routers/products.py update_product: existing_product = crud.get_product(...)
update_product_route(r, a, p, fields, price, stock) ==
    /\ Free(r)
    /\ LET s == [Begin(r, "update_product", a, p, 0) EXCEPT
                   !.fields = fields,
                   !.nprice = IF "price" \in fields THEN price ELSE 0,
                   !.nstock = IF "stock" \in fields THEN stock ELSE 0]
       IN IF ~get_product(p).exists THEN Set(r, Respond(s, "404 Product not found"))
          ELSE Set(r, [s EXCEPT !.cache[p] = Loaded(get_product(p)),
                                !.pc = "update_product_get"])
    /\ UNCHANGED <<db, fixed>>

\* crud.update_product: db_product = get_product(db, product_id)
update_product_get(r) ==
    /\ req[r].pc = "update_product_get"
    /\ LET s == req[r]
       IN IF ~get_product(s.pid).exists
          THEN \* None is returned, which is no schemas.Product
               Set(r, Respond(s, ServerError))
          ELSE Set(r, [s EXCEPT !.pc = "update_product_commit"])
    /\ UNCHANGED <<db, fixed>>

\* crud.update_product: setattr(db_product, field, value) for the fields set
Updated(loaded, s) ==
    [loaded EXCEPT !.price = IF "price" \in s.fields THEN s.nprice ELSE @,
                   !.stock = IF "stock" \in s.fields THEN s.nstock ELSE @]

\* crud.update_product: db.commit(), an UPDATE of the attributes that changed
update_product_commit(r) ==
    /\ req[r].pc = "update_product_commit"
    /\ LET s == req[r]
           p == s.pid
           loaded == s.cache[p]
           new == Updated(loaded, s)
       IN IF ~products[p].exists
          THEN \* StaleDataError, or the refresh finds no row
               /\ Set(r, Respond(s, ServerError))
               /\ UNCHANGED products
          ELSE /\ products' = [products EXCEPT
                     ![p].price = IF new.price # loaded.price THEN new.price ELSE @,
                     ![p].stock = IF new.stock # loaded.stock THEN new.stock ELSE @]
               /\ Set(r, Respond(s, "200 OK"))
    /\ UNCHANGED <<cart, cart_seq, orders, order_items, fixed>>

\* routers/products.py delete_product: existing_product = crud.get_product(...)
delete_product_route(r, a, p) ==
    /\ Free(r)
    /\ LET s == Begin(r, "delete_product", a, p, 0)
       IN IF ~get_product(p).exists THEN Set(r, Respond(s, "404 Product not found"))
          ELSE Set(r, [s EXCEPT !.pc = "delete_product_get"])
    /\ UNCHANGED <<db, fixed>>

\* crud.delete_product: db_product = get_product(db, product_id)
delete_product_get(r) ==
    /\ req[r].pc = "delete_product_get"
    /\ LET s == req[r]
       IN IF ~get_product(s.pid).exists
          THEN Set(r, Respond(s, "204 No Content"))
          ELSE Set(r, [s EXCEPT !.pc = "delete_product_commit"])
    /\ UNCHANGED <<db, fixed>>

\* the rows of cart and order_items that reference product p
Referenced(p) ==
    \/ \E c \in cart : c.product_id = p
    \/ \E i \in DOMAIN order_items : order_items[i].product_id = p

\* crud.delete_product: db.delete(db_product); db.commit()
delete_product_commit(r) ==
    /\ req[r].pc = "delete_product_commit"
    /\ LET s == req[r]
       IN IF Referenced(s.pid)
          THEN \* product_id of the referencing rows is NOT NULL: IntegrityError
               /\ Set(r, Respond(s, ServerError))
               /\ UNCHANGED products
          ELSE /\ products' = [products EXCEPT ![s.pid] = NoProduct]
               /\ Set(r, Respond(s, "204 No Content"))
    /\ UNCHANGED <<cart, cart_seq, orders, order_items, fixed>>

\* ------------------------------------------------------------ orders
\* auth.get_current_admin_user: the authenticated user, who must be an admin
get_current_admin_user(u) == role(u) = ADMIN

Forbidden == "403 Not enough permissions"
NoStatus == "-"

\* crud.get_order: the row of orders with that id, or None
get_order(o) == IF o \in DOMAIN orders THEN {o} ELSE {}

\* the order ids a request may name: those of the orders, and one of no order
OrderIds == 1..(Len(orders) + 1)

\* a slip of the status update: only a later stage of the lifecycle is let in
Stage(status) ==
    CASE status = "pending" -> 1 [] status = "paid" -> 2
      [] status = "shipped" -> 3 [] status = "delivered" -> 4 [] OTHER -> 0

update_order_status_route_forward(r, u, status) ==
    /\ Free(r)
    /\ \E o \in OrderIds :
       LET s == [Begin(r, "update_order_status", u, "-", 0) EXCEPT
                   !.order = o, !.status = status]
       IN IF ~get_current_admin_user(u) THEN Set(r, Respond(s, Forbidden))
          ELSE IF status = NoStatus
          THEN Set(r, Respond(s, "400 Status is required"))
          ELSE IF get_order(o) = {}
          THEN Set(r, Respond(s, "404 Order not found"))
          ELSE IF Stage(status) <= Stage(orders[o].status)
          THEN Set(r, Respond(s, "400 Invalid status transition"))
          ELSE Set(r, [s EXCEPT !.pc = "status_commit",
                                !.loaded = orders[o].status])
    /\ UNCHANGED <<db, fixed>>

\* a slip of the route: it asks for an authenticated user, of any role
update_order_status_route_any(r, u, status) ==
    /\ Free(r)
    /\ \E o \in OrderIds :
       LET s == [Begin(r, "update_order_status", u, "-", 0) EXCEPT
                   !.order = o, !.status = status]
       IN IF status = NoStatus
          THEN Set(r, Respond(s, "400 Status is required"))
          ELSE IF get_order(o) = {}
          THEN Set(r, Respond(s, "404 Order not found"))
          ELSE Set(r, [s EXCEPT !.pc = "status_commit",
                                !.loaded = orders[o].status])
    /\ UNCHANGED <<db, fixed>>

\* routers/orders.py update_order_status: the admin dependency, the status
\* check, and crud.update_order_status: db_order = get_order(db, order_id)
update_order_status_route(r, u, status) ==
    /\ Free(r)
    /\ \E o \in OrderIds :
       LET s == [Begin(r, "update_order_status", u, "-", 0) EXCEPT
                   !.order = o, !.status = status]
       IN IF ~get_current_admin_user(u) THEN Set(r, Respond(s, Forbidden))
          ELSE IF status = NoStatus
          THEN Set(r, Respond(s, "400 Status is required"))
          ELSE IF get_order(o) = {}
          THEN Set(r, Respond(s, "404 Order not found"))
          ELSE Set(r, [s EXCEPT !.pc = "status_commit",
                                !.loaded = orders[o].status])
    /\ UNCHANGED <<db, fixed>>

\* a slip of the status update: the row is written anew, its total lost
update_order_status_commit_anew(r) ==
    /\ req[r].pc = "status_commit"
    /\ LET s == req[r]
           o == s.order
       IN /\ orders' = [orders EXCEPT ![o] = [Order(orders[o].user_id, 0)
                                                EXCEPT !.status = s.status]]
          /\ Set(r, Respond([s EXCEPT !.status = orders'[o].status], "200 OK"))
    /\ UNCHANGED <<products, cart, cart_seq, order_items, fixed>>

\* crud.update_order_status: db_order.status = status; db.commit();
\* db.refresh(db_order) (an UPDATE is sent when the attribute has changed)
update_order_status_commit(r) ==
    /\ req[r].pc = "status_commit"
    /\ LET s == req[r]
           o == s.order
       IN /\ orders' = IF s.status # s.loaded
                       THEN [orders EXCEPT ![o].status = s.status]
                       ELSE orders
          /\ Set(r, Respond([s EXCEPT !.status = orders'[o].status], "200 OK"))
    /\ UNCHANGED <<products, cart, cart_seq, order_items, fixed>>

\* crud.get_all_orders, crud.get_user_orders: the ids of the orders returned
get_all_orders == DOMAIN orders
get_user_orders(u) == {o \in DOMAIN orders : orders[o].user_id = u}

\* routers/orders.py get_orders: customers see their own, admins see all
get_orders(r, u) ==
    /\ Free(r)
    /\ LET s == Begin(r, "get_orders", u, "-", 0)
       IN Set(r, Respond([s EXCEPT !.listed = IF role(u) = ADMIN
                                              THEN get_all_orders
                                              ELSE get_user_orders(u)],
                         "200 OK"))
    /\ UNCHANGED <<db, fixed>>

\* a slip of the route: the order is returned without a look at its owner
get_order_route_open(r, u) ==
    /\ Free(r)
    /\ \E o \in OrderIds :
       LET s == [Begin(r, "get_order", u, "-", 0) EXCEPT !.order = o]
       IN IF get_order(o) = {} THEN Set(r, Respond(s, "404 Order not found"))
          ELSE Set(r, Respond([s EXCEPT !.listed = {o},
                                        !.status = orders[o].status], "200 OK"))
    /\ UNCHANGED <<db, fixed>>

\* routers/orders.py get_order: the order, for its owner and for admins
get_order_route(r, u) ==
    /\ Free(r)
    /\ \E o \in OrderIds :
       LET s == [Begin(r, "get_order", u, "-", 0) EXCEPT !.order = o]
       IN IF get_order(o) = {} THEN Set(r, Respond(s, "404 Order not found"))
          ELSE IF role(u) # ADMIN /\ orders[o].user_id # u
          THEN Set(r, Respond(s, Forbidden))
          ELSE Set(r, Respond([s EXCEPT !.listed = {o},
                                        !.status = orders[o].status], "200 OK"))
    /\ UNCHANGED <<db, fixed>>

\* ------------------------------------------------------------ faults
StorageFault == "500 Storage fault"

\* database.get_db: a statement raises SQLAlchemyError; db.rollback() discards
\* what the session has not committed, and the request fails
storage_fault(r) ==
    /\ req[r].pc \notin {"idle", "done"}
    /\ Set(r, Respond(req[r], StorageFault))
    /\ UNCHANGED <<db, fixed>>

\* ------------------------------------------------------ specification
Fields == {{"price"}, {"stock"}}

Next ==
    \E r \in Requests :
       \/ \E u \in CartUsers, p \in Products, q \in Quantities :
             add_to_cart_route(r, u, p, q)
       \/ add_to_cart_get_item(r)
       \/ add_to_cart_commit(r)
       \/ \E u \in CartUsers, p \in Products, q \in Quantities :
             update_cart_item_route(r, u, p, q)
       \/ update_cart_item_get_item(r)
       \/ update_cart_item_commit(r)
       \/ \E u \in CartUsers, p \in Products : remove_from_cart_get_item(r, u, p)
       \/ remove_from_cart_commit(r)
       \/ \E u \in CartUsers : clear_cart_get_items(r, u)
       \/ clear_cart_commit(r)
       \/ \E u \in Users : checkout_load(r, u)
       \/ checkout_validate(r)
       \/ checkout_create_order(r)
       \/ checkout_line_cart(r)
       \/ checkout_line_product(r)
       \/ checkout_line_item(r)
       \/ checkout_line_stock(r)
       \/ checkout_line_quantity(r)
       \/ checkout_line_commit(r)
       \/ checkout_clear_cart(r)
       \/ checkout_clear_cart_commit(r)
       \/ \E a \in Admins, p \in Products, f \in Fields,
            price \in NewPrices, stock \in NewStocks :
             update_product_route(r, a, p, f, price, stock)
       \/ update_product_get(r)
       \/ update_product_commit(r)
       \/ \E a \in Admins, p \in Products : delete_product_route(r, a, p)
       \/ delete_product_get(r)
       \/ delete_product_commit(r)
       \/ \E u \in Users, status \in OrderStatus \cup {NoStatus} :
             update_order_status_route(r, u, status)
       \/ update_order_status_commit(r)
       \/ \E u \in Users : get_orders(r, u)
       \/ \E u \in Users : get_order_route(r, u)
       \/ storage_fault(r)

TwoWorkers == {"r1", "r2"}

Init == Store0 /\ sequential = FALSE /\ workers = TwoWorkers
Spec == Init /\ [][Next]_vars

\* The requests of a client that awaits each response (as the test suite does)
SeqInit == Store0 /\ sequential = TRUE /\ workers = TwoWorkers
SeqSpec == SeqInit /\ [][Next]_vars

\* Three concurrent requests, two of them under way: a checkout of u1 has read
\* the two rows of u1's cart (checkout_load), and a request of u1 has since
\* removed one of them (remove_from_cart); the third request is yet to come.
\* Each product has the stock an admin has left it (none, or one unit).
RaceCart == {Cart(Id0[<<"u1", p>>], "u1", p, 1) : p \in Products}

RaceInit ==
    /\ \E stock \in 0..1, removed \in RaceCart :
          /\ products = [p \in Products |-> Product(Price0[p], stock)]
          /\ cart = RaceCart \ {removed}
          /\ req = [r \in Requests |->
                CASE r = "r1" ->
                       [Begin(r, "checkout", "u1", "-", 0) EXCEPT
                          !.pc = "validate", !.idx = 1,
                          !.pre = [stock |-> [p \in Products |-> stock],
                                   price |-> Price0,
                                   lines |-> [p \in Products |-> 1]],
                          !.items = [i \in DOMAIN by_id(RaceCart) |->
                                       Item(by_id(RaceCart)[i])]]
                  [] r = "r2" ->
                       Respond(Begin(r, "remove_from_cart", "u1",
                                     removed.product_id, 0), "204 No Content")
                  [] OTHER -> Idle]
    /\ cart_seq = Cardinality(Customers \X Products)
    /\ orders = <<>>
    /\ order_items = <<>>
    /\ sequential = FALSE
    /\ workers = Requests
RaceSpec == RaceInit /\ [][Next]_vars

\* The store after a checkout: u1 has ordered one unit of p1 (one unit of
\* each product is left) and u1's cart is empty; u2 and the admin each hold
\* a cart row for p1 (the cart routes ask for an authenticated user of any
\* role).  The requests that follow are concurrent, or await each response.
OrderCart == {Cart(Id0[<<"u2", "p1">>], "u2", "p1", 1),
              Cart(Cardinality(Customers \X Products) + 1, "a1", "p1", 1)}

OrderInit ==
    /\ products = [p \in Products |-> Product(Price0[p], 1)]
    /\ cart = OrderCart
    /\ cart_seq = Cardinality(Customers \X Products) + 1
    /\ orders = <<Order("u1", LineTotal(Price0["p1"], 1))>>
    /\ order_items = <<OrderItem(1, "p1", 1, Price0["p1"])>>
    /\ req = [r \in Requests |-> Idle]
    /\ sequential \in BOOLEAN
    /\ workers = TwoWorkers
OrderSpec == OrderInit /\ [][Next]_vars

\* ============================================================ claims
Created == "201 Created"
Done(r) == req[r].pc = "done"
OnlyOps(ops) == \A r \in Requests : req[r].op \in ops \cup {"none"}

\* C1: every product's stock is >= 0 in every state that concurrent checkout
\* requests (and no other request) have reached.
C1_StockNeverNegative ==
    OnlyOps({"checkout"}) => \A p \in Products : products[p].stock >= 0

\* C2: two checkouts of the same user that both found stock 1 and a cart
\* holding that one product with quantity 1, and that no storage fault
\* interrupts: exactly one succeeds, the other fails for insufficient stock,
\* and the stock ends at 0.
BothFound(u, p) ==
    \A r \in workers :
       /\ Done(r) /\ req[r].op = "checkout" /\ req[r].user = u
       /\ req[r].result # StorageFault
       /\ req[r].pre.stock[p] = 1
       /\ req[r].pre.lines = [x \in Products |-> IF x = p THEN 1 ELSE 0]
C2_OneWinnerOfLastUnit ==
    \A u \in Customers, p \in Products :
       BothFound(u, p) =>
          /\ \E w \in workers :
                /\ req[w].result = Created
                /\ \A o \in workers \ {w} : req[o].result = "400 Insufficient stock"
          /\ products[p].stock = 0

\* sum of quantity * price over the order items of order o
LinesTotal(o) ==
    LET sum[i \in 0..Len(order_items)] ==
          IF i = 0 THEN 0
          ELSE sum[i - 1] + (IF order_items[i].order_id = o
                             THEN order_items[i].quantity * order_items[i].price
                             ELSE 0)
    IN sum[Len(order_items)]

\* C3: the total_price of every order a checkout has returned equals the sum
\* of quantity * price over the order's items.
C3_TotalIsSumOfLines ==
    \A r \in Requests :
       Done(r) /\ req[r].op = "checkout" /\ req[r].result = Created
          => orders[req[r].order].total_price = LinesTotal(req[r].order)

\* C4: a checkout interrupted by a storage fault persists none of its writes:
\* the order it created (if it got that far) is not in the store.
C4_FaultedCheckoutPersistsNothing ==
    \A r \in Requests :
       Done(r) /\ req[r].op = "checkout" /\ req[r].result = StorageFault
          => req[r].order = 0

\* C5: every step of a checkout up to and including the total computation
\* (cart loading, product lookup, stock validation), and every checkout that
\* fails there, leaves products, cart, orders and order items as they were and
\* has created no order.
InSteps1to4(r) ==
    /\ req'[r] # req[r]
    /\ req'[r].op = "checkout"
    /\ req[r].pc \in {"idle", "validate"}
ValidationFailures ==
    {"400 Cart is empty", "400 Product not found", "400 Insufficient stock"}
FailsValidation(r) ==
    /\ ~Done(r) /\ req'[r].pc = "done"
    /\ req'[r].op = "checkout"
    /\ req'[r].result \in ValidationFailures
C5_FailureBeforeOrderWritesNothing ==
    [][\A r \in Requests :
          InSteps1to4(r) \/ FailsValidation(r)
             => UNCHANGED db /\ req'[r].order = 0]_vars
C5_Witness ==
    \E r \in Requests :
       /\ Done(r) /\ req[r].op = "checkout"
       /\ req[r].result = "400 Insufficient stock"
       /\ \E p \in Products : req[r].pre.lines[p] > 0

\* C6: at most one cart row per (user, product) pair (shown on the carts all
\* of whose rows have a positive quantity).
C6_OneRowPerUserProduct ==
    (\A c \in cart : c.quantity >= 1) =>
       \A c \in cart, d \in cart :
          c.user_id = d.user_id /\ c.product_id = d.product_id => c.id = d.id

\* C7: among concurrent add-to-cart requests, every add of a positive quantity
\* that completes grows the quantity the cart holds for its (user, product)
\* pair by exactly the quantity it adds (no update is lost).
C7_NoLostCartUpdate ==
    [][\A r \in Requests :
          /\ OnlyOps({"add_to_cart"})
          /\ req[r].pc = "add_commit" /\ req[r].qty >= 1
          /\ req'[r].result = Created
          => CartQuantity(req[r].user, req[r].pid)'
               = CartQuantity(req[r].user, req[r].pid) + req[r].qty]_vars

\* C8: the price of an order item is the price its line of the order total was
\* computed with, and no later step changes an order item.
C8_LinePriceIsTotalPrice ==
    [][/\ \A r \in Requests :
             req[r].pc = "line_item" /\ Len(order_items') > Len(order_items)
                => order_items'[Len(order_items')].price = req[r].seen[req[r].idx].price
       /\ \A i \in DOMAIN order_items : order_items'[i] = order_items[i]]_vars

\* C9: for a client that awaits each response, an add-to-cart of quantity b
\* leaves exactly one cart row for (user, product): of quantity b when there
\* was none, and the row that was there with its quantity a grown to a + b.
C9_MergeLaw ==
    [][\A r \in Requests :
          req[r].pc = "add_commit" /\ req'[r].result = Created
          => LET before == get_cart_item(req[r].user, req[r].pid)
                 after == get_cart_item(req[r].user, req[r].pid)'
             IN /\ Cardinality(after) = 1
                /\ before = {} => \A c \in after : c.quantity = req[r].qty
                /\ \A a \in before : \A c \in after :
                      c.id = a.id /\ c.quantity = a.quantity + req[r].qty]_vars
C9_Witness ==
    /\ \A r \in workers :
          /\ Done(r) /\ req[r].op = "add_to_cart" /\ req[r].result = Created
          /\ req[r].user = "u1" /\ req[r].pid = "p1" /\ req[r].qty = 1
    /\ \E c \in cart :
          /\ cart = {c}
          /\ c.user_id = "u1" /\ c.product_id = "p1" /\ c.quantity = 2

\* C10: for a client that awaits each response, a checkout that succeeds has
\* reduced the stock of every product by the quantity the cart held of it
\* when the checkout began (by nothing for a product not in the cart).
C10_StockReducedByCartQuantity ==
    [][\A r \in Requests :
          req[r].pc = "clear_cart_commit" /\ req'[r].result = Created
          => \A p \in Products :
                products'[p].stock = req[r].pre.stock[p] - req[r].pre.lines[p]]_vars
C10_Witness ==
    \E r \in Requests :
       /\ Done(r) /\ req[r].op = "checkout" /\ req[r].result = Created
       /\ req[r].pre.stock["p1"] = 2 /\ req[r].pre.lines["p1"] = 2
       /\ req[r].pre.lines["p2"] = 0
       /\ products["p1"].stock = 0
       /\ products["p2"].stock = req[r].pre.stock["p2"]

\* C11: for a client that awaits each response, when a checkout of user u
\* succeeds, u's cart is empty: get_cart_items(u) returns no rows.
C11_CartEmptyAfterCheckout ==
    [][\A r \in Requests :
          req[r].op = "checkout" /\ ~Done(r) /\ req'[r].result = Created
             => get_cart_items(req[r].user)' = <<>>]_vars
C11_Witness ==
    \E r \in Requests :
       /\ Done(r) /\ req[r].op = "checkout" /\ req[r].result = Created
       /\ req[r].pre.lines["p1"] > 0 /\ req[r].pre.lines["p2"] > 0
       /\ get_cart_items(req[r].user) = <<>>

\* sum of price * quantity over the products of S, as the checkout found them
RECURSIVE PreTotal(_, _)
PreTotal(pre, S) ==
    IF S = {} THEN 0
    ELSE LET p == CHOOSE x \in S : TRUE
         IN pre.price[p] * pre.lines[p] + PreTotal(pre, S \ {p})

\* C12: for a client that awaits each response, the order a successful
\* checkout returns has for total_price the sum, over the lines the cart held
\* when the checkout began, of the product's price times the line's quantity.
C12_TotalOfCartLines ==
    \A r \in Requests :
       Done(r) /\ req[r].op = "checkout" /\ req[r].result = Created
          => orders[req[r].order].total_price = PreTotal(req[r].pre, Products)
C12_Witness ==
    \E r \in Requests :
       /\ Done(r) /\ req[r].op = "checkout" /\ req[r].result = Created
       /\ req[r].pre.lines = [p \in Products |-> IF p = "p2" THEN 2 ELSE 0]
       /\ orders[req[r].order].total_price = Price0["p2"] * 2

\* C13: a checkout of a customer whose cart holds no row fails with
\* "Cart is empty" (status 400), creates no order and leaves the store as it
\* was, whatever the other requests are doing.
EmptyCart == "400 Cart is empty"
C13_EmptyCartFails ==
    [][\A r \in Requests :
          /\ req[r].pc = "idle" /\ req'[r].op = "checkout"
          /\ role(req'[r].user) = CUSTOMER
          /\ get_cart_items(req'[r].user) = <<>>
          => /\ req'[r].result = EmptyCart
             /\ req'[r].order = 0
             /\ UNCHANGED db]_vars
C13_Witness ==
    \E r \in Requests :
       /\ Done(r) /\ req[r].op = "checkout" /\ req[r].result = EmptyCart
       /\ get_cart_items(req[r].user) = <<>>
       /\ orders = <<>>

\* C14: for a client that awaits each response, a checkout that finds a cart
\* line whose (positive) quantity exceeds the product's stock, and that no
\* storage fault interrupts, fails with "Insufficient stock" (status 400) for
\* such a product, reports that product's stock as available, and leaves
\* every product's stock (and the rest of the store) as it was.
Exceeds(pre) ==
    {p \in Products : pre.lines[p] >= 1 /\ pre.lines[p] > pre.stock[p]}
C14_InsufficientStockFails ==
    [][\A r \in Requests :
          /\ req[r].op = "checkout" /\ ~Done(r) /\ req'[r].pc = "done"
          /\ req'[r].result # StorageFault
          /\ Exceeds(req[r].pre) # {}
          => /\ req'[r].result = "400 Insufficient stock"
             /\ req'[r].pid \in Exceeds(req[r].pre)
             /\ req'[r].available = req[r].pre.stock[req'[r].pid]
             /\ \A p \in Products : products'[p].stock = req[r].pre.stock[p]
             /\ UNCHANGED db]_vars
C14_Witness ==
    \E r \in Requests :
       /\ Done(r) /\ req[r].op = "checkout"
       /\ req[r].result = "400 Insufficient stock"
       /\ req[r].pid = "p1"
       /\ req[r].pre.lines["p1"] = 1 /\ req[r].pre.stock["p1"] = 0
       /\ req[r].available = 0
       /\ products["p1"].stock = 0

\* C15: a checkout that ends in its first loop (and that no storage fault
\* interrupts) while a product of one of the cart rows it read is missing
\* fails with "Product ... not found", naming a missing product; it has
\* created no order and leaves the store as it was.
Missing(items) ==
    {items[i].product_id : i \in DOMAIN items} \ {p \in Products : products[p].exists}
C15_MissingProductFails ==
    [][\A r \in Requests :
          /\ req[r].op = "checkout" /\ req[r].pc = "validate"
          /\ req'[r].pc = "done" /\ req'[r].result # StorageFault
          /\ Missing(req[r].items) # {}
          => /\ req'[r].result = "400 Product not found"
             /\ req'[r].pid \in Missing(req[r].items)
             /\ req'[r].order = 0
             /\ UNCHANGED db]_vars

\* the part of C15 that the first loop keeps: a checkout that fails there
\* for a missing product has written nothing, whatever the row's position
C15_NoPartialOrder ==
    [][\A r \in Requests :
          /\ req[r].op = "checkout" /\ ~Done(r)
          /\ req'[r].result = "400 Product not found"
          => /\ req[r].pc = "validate"
             /\ req'[r].pid = req[r].items[req[r].idx].product_id
             /\ req'[r].order = 0
             /\ UNCHANGED db]_vars
C15_MissingSecond ==
    \E r \in Requests :
       /\ Done(r) /\ req[r].op = "checkout"
       /\ req[r].result = "400 Product not found" /\ req[r].pid = "p2"
       /\ orders = <<>>

\* C16: for a client that awaits each response, removing a (user, product)
\* cart line that does not exist answers 404 "Cart item not found" and leaves
\* the store as it was; removing a line that exists (and that no storage
\* fault interrupts) answers 204 and deletes that one row and nothing else.
NotFound == "404 Cart item not found"
C16_RemoveNotFoundOrDeleted ==
    [][\A r \in Requests :
          LET line == get_cart_item(req'[r].user, req'[r].pid)
          IN /\ req[r].pc = "idle" /\ req'[r].op = "remove_from_cart"
                => IF line = {}
                   THEN req'[r].result = NotFound /\ UNCHANGED db
                   ELSE req'[r].pc = "remove_commit" /\ UNCHANGED db
             /\ req[r].pc = "remove_commit" /\ req'[r].result # StorageFault
                => /\ req'[r].result = "204 No Content"
                   /\ Cardinality(line) = 1
                   /\ cart' = cart \ line
                   /\ UNCHANGED <<products, orders, order_items>>]_vars
C16_Witness ==
    /\ \A r \in TwoWorkers :
          /\ Done(r) /\ req[r].op = "remove_from_cart"
          /\ req[r].user = "u1" /\ req[r].pid = "p1"
    /\ req["r1"].result = "204 No Content"
    /\ req["r2"].result = NotFound
    /\ get_cart_item("u1", "p1") = {}
    /\ \E c \in cart : c.user_id = "u1" /\ c.product_id = "p2"

\* C17: for a client that awaits each response, every cart clear (that no
\* storage fault interrupts) answers 204 and leaves the user's cart empty and
\* the rest of the store as it was; a clear of a cart that is already empty
\* changes nothing.
C17_ClearIsIdempotent ==
    [][\A r \in Requests :
          /\ req[r].pc = "idle" /\ req'[r].op = "clear_cart"
                => req'[r].pc = "clear_commit" /\ UNCHANGED db
          /\ req[r].pc = "clear_commit" /\ req'[r].result # StorageFault
                => /\ req'[r].result = "204 No Content"
                   /\ get_cart_items(req[r].user)' = <<>>
                   /\ cart' = {c \in cart : c.user_id # req[r].user}
                   /\ UNCHANGED <<products, orders, order_items>>
                   /\ get_cart_items(req[r].user) = <<>> => UNCHANGED db]_vars
\* two clears of u1's cart in a row; the cart of u1 had a row before the
\* first one, since u2's has one and u1's had no fewer
C17_Witness ==
    /\ \A r \in TwoWorkers :
          /\ Done(r) /\ req[r].op = "clear_cart" /\ req[r].user = "u1"
          /\ req[r].result = "204 No Content"
    /\ get_cart_items("u1") = <<>>
    /\ get_cart_items("u2") # <<>>

\* C18: for a client that awaits each response, crud.update_cart_item (that
\* no storage fault interrupts) sets the quantity of the one cart row of
\* (user, product) to the given quantity, whatever it was, and changes
\* nothing else; when the pair has no row it answers 404 "Cart item not
\* found" and creates none.
C18_SetQuantityReplaces ==
    [][\A r \in Requests :
          LET line == get_cart_item(req[r].user, req[r].pid)
          IN /\ req[r].pc = "update_get_item" /\ req'[r].result # StorageFault
                => IF line = {}
                   THEN req'[r].result = NotFound /\ UNCHANGED db
                   ELSE req'[r].pc = "update_commit" /\ UNCHANGED db
             /\ req[r].pc = "update_commit" /\ req'[r].result # StorageFault
                => /\ req'[r].result = "200 OK"
                   /\ Cardinality(line) = 1
                   /\ cart' = (cart \ line) \cup
                                {[c EXCEPT !.quantity = req[r].qty] : c \in line}
                   /\ UNCHANGED <<products, orders, order_items>>]_vars
C18_Witness ==
    /\ \A r \in TwoWorkers :
          Done(r) /\ req[r].op = "update_cart_item" /\ req[r].user = "u1"
    /\ req["r1"].pid = "p1" /\ req["r1"].qty = 2 /\ req["r1"].result = "200 OK"
    /\ req["r2"].pid = "p2" /\ req["r2"].qty = 1 /\ req["r2"].result = NotFound
    /\ \E c \in cart : get_cart_item("u1", "p1") = {c} /\ c.quantity = 2
    /\ get_cart_item("u1", "p2") = {}

\* C19: every cart row has a quantity >= 1 in every state that add-to-cart
\* and update-quantity requests (and no other request) have reached.
C19_CartQuantityPositive ==
    OnlyOps({"add_to_cart", "update_cart_item"})
       => \A c \in cart : c.quantity >= 1

\* C20: every product's stock is >= 0 in every state that admin product
\* updates (and no other request) have reached.
C20_StockNonNegativeUnderEdits ==
    OnlyOps({"update_product"}) => \A p \in Products : products[p].stock >= 0

\* the order items of order o, in the order of their creation
RECURSIVE LinesOf(_, _)
LinesOf(items, o) ==
    IF items = <<>> THEN <<>>
    ELSE (IF Head(items).order_id = o THEN <<Head(items)>> ELSE <<>>)
         \o LinesOf(Tail(items), o)

\* order o is not being built by a checkout that is still running
Returned(o) ==
    \A r \in Requests :
       ~(Running(r) /\ req[r].op = "checkout" /\ req[r].order = o)

\* C21: no step of any request (cart edits, checkouts, product updates and
\* deletions, status updates) changes the owner, the total_price or the
\* order items of an order that a checkout has finished building; orders
\* are never removed.
C21_OrderImmutableButStatus ==
    [][\A o \in DOMAIN orders :
          Returned(o) =>
             /\ o \in DOMAIN orders'
             /\ orders'[o].user_id = orders[o].user_id
             /\ orders'[o].total_price = orders[o].total_price
             /\ LinesOf(order_items', o) = LinesOf(order_items, o)]_vars
C21_Witness ==
    /\ \E r \in Requests :
          /\ Done(r) /\ req[r].op = "update_product" /\ req[r].pid = "p1"
          /\ req[r].result = "200 OK"
    /\ products["p1"].price # Price0["p1"]
    /\ orders[1].status = "shipped"
    /\ orders[1].user_id = "u1" /\ orders[1].total_price = Price0["p1"]
    /\ LinesOf(order_items, 1) = <<OrderItem(1, "p1", 1, Price0["p1"])>>

\* C22: every order is created with status pending; and, for a client that
\* awaits each response, a status update by an admin that names an existing
\* order and any status of {pending, paid, shipped, delivered} is accepted
\* whatever the order's current status, and leaves the order (and the
\* response) with the status it names.
C22_AnyStatusSettable ==
    [][/\ \A o \in DOMAIN orders' \ DOMAIN orders : orders'[o].status = PENDING
       /\ \A r \in Requests :
             LET s == req'[r]
             IN /\ /\ sequential
                   /\ req[r].pc = "idle" /\ s.op = "update_order_status"
                   /\ role(s.user) = ADMIN /\ s.status \in OrderStatus
                   /\ s.order \in DOMAIN orders
                   => s.pc = "status_commit" /\ UNCHANGED db
                /\ /\ sequential
                   /\ req[r].pc = "status_commit" /\ s.result # StorageFault
                   => /\ s.result = "200 OK"
                      /\ orders'[s.order].status = req[r].status
                      /\ s.status = req[r].status]_vars
C22_Witness ==
    /\ sequential
    /\ \A r \in TwoWorkers :
          /\ Done(r) /\ req[r].op = "update_order_status"
          /\ req[r].order = 1 /\ req[r].result = "200 OK"
    /\ req["r1"].status = "delivered"
    /\ req["r2"].status = "pending"
    /\ orders[1].status = "pending"

\* C23: a status update requested by a customer, the order's owner included,
\* is answered 403 and changes nothing; and every step that changes the
\* status of an order is the commit of a status update that an admin
\* requested for that order.
C23_OnlyAdminSetsStatus ==
    [][/\ \A r \in Requests :
             /\ req[r].pc = "idle" /\ req'[r].op = "update_order_status"
             /\ role(req'[r].user) # ADMIN
             => req'[r].result = Forbidden /\ UNCHANGED db
       /\ \A o \in DOMAIN orders :
             orders'[o].status # orders[o].status
             => \E r \in Requests :
                   /\ req[r].pc = "status_commit" /\ req'[r].pc = "done"
                   /\ req[r].order = o /\ role(req[r].user) = ADMIN]_vars
C23_Witness ==
    /\ \E r \in Requests :
          /\ Done(r) /\ req[r].op = "update_order_status"
          /\ req[r].user = orders[1].user_id /\ req[r].order = 1
          /\ req[r].status = "shipped" /\ req[r].result = Forbidden
    /\ \E r \in Requests :
          /\ Done(r) /\ req[r].op = "update_order_status"
          /\ role(req[r].user) = ADMIN /\ req[r].order = 1
          /\ req[r].status = "paid" /\ req[r].result = "200 OK"
    /\ orders[1].status = "paid"

\* C24: a checkout requested by an admin is answered 403 at once, whatever
\* the admin's cart holds: the products, the carts, the orders and their
\* lines are unchanged by it, and no order ever belongs to an admin.
C24_AdminNeverChecksOut ==
    [][/\ \A r \in Requests :
             /\ req[r].pc = "idle" /\ req'[r].op = "checkout"
             /\ role(req'[r].user) = ADMIN
             => /\ req'[r].result = "403 Admins cannot checkout"
                /\ UNCHANGED db
       /\ \A o \in DOMAIN orders' : role(orders'[o].user_id) # ADMIN]_vars
C24_Witness ==
    \E r \in Requests :
       /\ Done(r) /\ req[r].op = "checkout" /\ role(req[r].user) = ADMIN
       /\ req[r].result = "403 Admins cannot checkout"
       /\ \E c \in cart : c.user_id = req[r].user /\ c.quantity >= 1
       /\ products["p1"].stock >= 1

\* C25: an add-to-cart whose quantity exceeds the stock of the product is
\* answered 400 at once and leaves the store, the user's cart included,
\* unchanged.
C25_AddBeyondStockRejected ==
    [][\A r \in Requests :
          /\ req[r].pc = "idle" /\ req'[r].op = "add_to_cart"
          /\ products[req'[r].pid].exists
          /\ req'[r].qty > products[req'[r].pid].stock
          => /\ req'[r].result = "400 Insufficient stock"
             /\ UNCHANGED db]_vars
\* ... and the checkout that follows on the still empty cart finds it empty
C25_Witness ==
    /\ Done("r1") /\ req["r1"].op = "add_to_cart"
    /\ req["r1"].result = "400 Insufficient stock"
    /\ req["r1"].qty > products[req["r1"].pid].stock
    /\ Done("r2") /\ req["r2"].op = "checkout"
    /\ req["r2"].user = req["r1"].user
    /\ req["r2"].result = "400 Cart is empty"
    /\ get_cart_items(req["r1"].user) = <<>>
    /\ orders = <<>>

C27_LinesAsValidated ==
    [][/\ \A r \in Requests :
             /\ req[r].pc = "clear_cart_commit" /\ req'[r].result = Created
             => LET lines == LinesOf(order_items', req[r].order)
                    seen == req[r].seen
                IN /\ Len(lines) = Len(seen)
                   /\ \A i \in DOMAIN lines :
                         /\ i \in DOMAIN seen
                         /\ lines[i].quantity = seen[i].quantity
       /\ \A r \in Requests :
             /\ req[r].pc = "line_item" /\ req'[r].pc = "line_stock"
             => LET line == order_items'[Len(order_items')]
                IN /\ line.order_id = req[r].order
                   /\ line.product_id = req[r].items[req[r].idx].product_id
       /\ \A c \in cart, d \in cart' :
             c.id = d.id
             => c.product_id = d.product_id /\ c.user_id = d.user_id]_vars

\* the checkouts of user u that have returned an order
Winners(u) ==
    {r \in Requests : /\ Done(r) /\ req[r].op = "checkout"
                      /\ req[r].user = u /\ req[r].result = Created}

\* C28: in every state that checkout requests alone have reached (the cart
\* rows are those of the initial store: none was added or edited) and in
\* which no stock is negative (the stock sufficed for all that was ordered),
\* at most one checkout of each user has returned an order.
C28_AtMostOneWinner ==
    /\ OnlyOps({"checkout"})
    /\ \A p \in Products : products[p].stock >= 0
    => \A u \in Customers : Cardinality(Winners(u)) <= 1

\* the quantity of product p over all order items
Ordered(p) ==
    LET sum[i \in 0..Len(order_items)] ==
          IF i = 0 THEN 0
          ELSE sum[i - 1] + (IF order_items[i].product_id = p
                             THEN order_items[i].quantity ELSE 0)
    IN sum[Len(order_items)]

\* every request so far is a checkout that has returned, with an order or
\* with a refusal of its first loop (none was cut short by an error)
CheckoutsReturned ==
    /\ OnlyOps({"checkout"})
    /\ \A r \in Requests :
          req[r].pc = "done" => req[r].result \in ValidationFailures \cup {Created}
    /\ \A r \in Requests : ~Running(r)

\* C29: in every state that checkouts alone have reached (no admin request,
\* no cart edit) and in which every checkout has returned, each product's
\* stock plus the quantities of its order items is the stock the first
\* checkout found, which is the stock of the initial store.
C29_StockConserved ==
    CheckoutsReturned /\ req["r1"].pre # NoPre
    => \A p \in Products :
          req["r1"].pre.stock[p] = products[p].stock + Ordered(p)

\* C30: for a client that awaits each response (the stock the request read
\* is then still the stock of the product when the request commits), after an
\* add-to-cart or an update of a quantity that is accepted, every cart row of
\* that user and product has a quantity not above the product's stock.
C30_LineWithinStock ==
    [][\A r \in Requests :
          /\ sequential
          /\ req[r].pc \in {"add_commit", "update_commit"}
          /\ req'[r].result \in {"201 Created", "200 OK"}
          => \A c \in cart' :
                c.user_id = req[r].user /\ c.product_id = req[r].pid
                => c.quantity <= products[req[r].pid].stock]_vars

=============================================================================
